---- MODULE Spec2Model ----
(***************************************************************************)
(* A model of arduino_coldfire_bdm: the serial packet codec                *)
(* (serial_interface.py), the BDM command engine (bdm_interface.py) and    *)
(* the Coldfire debug port it talks to through the Arduino bridge.         *)
(*                                                                         *)
(* Python integers that may be wider than 31 bits (addresses, longword     *)
(* data, register values) are written as the pair <<hi, lo>> with          *)
(* x = hi * 65536 + lo and lo in 0..65535.  The pair is the integer: every *)
(* integer has exactly one such pair (hi is negative for a negative x and  *)
(* above 65535 for an x wider than 32 bits), x >> 16 is hi and x & 0xFFFF  *)
(* is lo.                                                                  *)
(***************************************************************************)
EXTENDS Integers, Sequences, FiniteSets, TLC

VARIABLES
    current_step_mode,      \* BDMCommandInterface.current_step_mode
    in_unlock_bypass_mode,  \* BDMCommandInterface.in_unlock_bypass_mode, "missing" while the attribute is not set
    tgt,                    \* the Coldfire behind the bridge
    op,                     \* the last call: its name and arguments
    log,                    \* what the last call did on the transport, and the waits it made, in order
    outcome,                \* how the last call ended: the exception, or the value returned
    csr_written,            \* history: the two data words of the last write-CSR command issued (<<>>: none yet)
    pre,                    \* history: the fields of the engine before the last call
    nOps,                   \* number of calls made so far
    gen,                    \* the generator object made by dump_words, and the words it has yielded
    iface,                  \* ColdfireSerialInterface: "none" before __init__, "ready" after it, "failed" when it
                            \* raised; everything that happened on the serial port since it was opened;
                            \* and the commands_sent of a MockColdfireSerialInterface given the same calls
    proc                    \* the command-line loop in progress: the transport events it still has to make

\* The variables only the specifications of the generator, the handshake and the loops change.
session == <<gen, iface, proc>>

vars == <<current_step_mode, in_unlock_bypass_mode, tgt, op, log, outcome, csr_written, pre, nOps,
          gen, iface, proc>>

(***************************************************************************)
(* Bounds of the model.                                                    *)
(***************************************************************************)
MaxOps == 3
\* The largest number of words asked of dump_words.
MaxWords == 4
\* The number of calls made on the engine before dump_words is called.
MaxBefore == 1
\* The number of consistency checks run in a row.
MaxChecks == 1
\* The number of calls made in a row when the pairing of commands and responses is examined.
MaxLinkOps == 2
\* The number of calls made on the serial interface after its construction.
MaxSerialOps == 3
\* The largest number of instructions traced.
MaxInstructions == 1
\* Bytes in a file given to load_flash, and load_flash commands in a behaviour.
MaxLoadBytes == 3
MaxLoads == 1

(***************************************************************************)
(* Program constants.                                                      *)
(***************************************************************************)
NUM_ADDRESS_REGISTERS == 8
NUM_DATA_REGISTERS == 8

\* The characters of the serial framing, as byte values.
Ch_s == 115
Ch_r == 114
Ch_S == 83
Ch_N == 78
Ch_Y == 89
Ch_P == 80
Ch_R == 82
Ch_B == 66

\* Command words.
OP_NOOP == 0
OP_GO == 3072
OP_READ_BYTE == 6400
OP_READ_WORD == 6464
OP_READ_LONG == 6528
OP_READ_REG == 8576
OP_READ_AREG == 8584
OP_READ_CREG == 10624
OP_READ_CSR == 11648
OP_WRITE_CSR == 11392
OP_WRITE_BYTE == 6144
OP_WRITE_WORD == 6208
OP_WRITE_LONG == 6272
OP_WRITE_CREG == 10368
OP_WRITE_REG == 8320
OP_WRITE_AREG == 8328
OP_DUMP_WORD == 7488

\* ControlRegisters.PC
CR_PC == 2063
CR_MBAR == 3087
PADDR_OFFSET == 580
PADAT_OFFSET == 584

(***************************************************************************)
(* Integer helpers.                                                        *)
(***************************************************************************)
IsWord(w) == w \in 0..65535

RECURSIVE BitAnd(_, _)
\* a & b for naturals
BitAnd(a, b) ==
    IF a = 0 \/ b = 0 THEN 0
    ELSE (a % 2) * (b % 2) + 2 * BitAnd(a \div 2, b \div 2)

RECURSIVE BitOr(_, _)
\* a | b for naturals
BitOr(a, b) ==
    IF a = 0 THEN b
    ELSE IF b = 0 THEN a
    ELSE (IF a % 2 = 1 \/ b % 2 = 1 THEN 1 ELSE 0) + 2 * BitOr(a \div 2, b \div 2)

\* bit n of a natural
Bit(x, n) == (x \div (2 ^ n)) % 2

\* The integer hi * 65536 + lo as a pair.
Long(hi, lo) == <<hi, lo>>
Hi(x) == x[1]
Lo(x) == x[2]

\* struct.pack(">H", w): two bytes, most significant first. Defined for 0..65535 only;
\* struct.pack raises struct.error outside that range.
PackBE(w) == <<w \div 256, w % 256>>

\* struct.unpack("<H", b)[0]: two bytes, least significant first.
UnpackLE(b) == b[1] + 256 * b[2]

(***************************************************************************)
(* Response (serial_interface.py).  The result of the constructor is the   *)
(* exception it raises, or "none", with the fields it set.                 *)
(***************************************************************************)
ERR_NONE == "none"
ERR_TARGET == "ValueError: Coldfire responded to last-sent command with Error response"
ERR_ILLEGAL == "ValueError: Coldfire responded to last-sent command with Illegal Command"
ERR_VALIDATION == "ValueError: out of range"
ERR_STATE == "RuntimeError: enter_flash_unlock_bypass has not been called"
ERR_ATTRIBUTE == "AttributeError: in_unlock_bypass_mode"
ERR_INCONSISTENT == "ValueError: Read all registers twice in a row, but found different results"
ERR_WRITE_VERIFY == "ValueError: Wrote to all registers, but read different results"
ERR_HANDSHAKE == "RuntimeError: Tried to connect to Arduino, but got unexpected line"
ERR_PING == "RuntimeError: Sent ping to Arduino and expected to receive PONG"
ERR_STOP == "StopIteration"
ERR_STRUCT == "struct.error"

\* Response.__init__, with the comparison of the checks of the other sentinel swapped in
ResponseSwapped(status, data) ==
    [status |-> status, data |-> data,
     err |-> IF status = 1
             THEN IF data = 65535 THEN ERR_TARGET
                  ELSE IF data = 1 THEN ERR_ILLEGAL
                  ELSE ERR_NONE
             ELSE ERR_NONE]

Response(status, data) ==
    [status |-> status, data |-> data,
     err |-> IF status = 1
             THEN IF data = 1 THEN ERR_TARGET
                  ELSE IF data = 65535 THEN ERR_ILLEGAL
                  ELSE ERR_NONE
             ELSE ERR_NONE]

\* response[0] == b"N": indexing a bytes object gives an int, and in Python 3 an int
\* never equals a bytes object, whatever the byte is.
StatusByteIsN(byte) == FALSE

\* ColdfireSerialInterface._receive_packet, decoding after serial.read(3)
DecodeFrame(response) ==
    LET status == IF StatusByteIsN(response[1]) THEN 1 ELSE 0
        data == UnpackLE(SubSeq(response, 2, 3))
    IN Response(status, data)

(***************************************************************************)
(* The Coldfire debug port.  Every transfer shifts a 16-bit word in and    *)
(* the response to the previous transfer out (a queue of depth one); a     *)
(* two-word result is handed out over two transfers.  A command word is    *)
(* followed by its operand words; the command runs when the last operand   *)
(* has arrived.                                                            *)
(***************************************************************************)
RSP_NOT_READY == <<1, 0>>
RSP_ERROR == <<1, 1>>
RSP_ILLEGAL == <<1, 65535>>
RSP_COMPLETE == <<0, 65535>>

\* Register field of a register command: 0..7 data registers, 8..15 address registers.
RegField(w) == w % 16
RegBase(w) == w - (w % 16)

\* RAM words of the target, by address; the flash command window; anything else is unmapped.
RamAddrs == {Long(0, 4096), Long(0, 4098), Long(0, 4100), Long(0, 4102)}
IsFlash(a) == Hi(a) = 0 /\ Lo(a) < 4096
IsMapped(a) == a \in RamAddrs \/ IsFlash(a)

NumOperands(w) ==
    IF w \in {OP_READ_BYTE, OP_READ_WORD, OP_READ_LONG, OP_READ_CREG, OP_WRITE_CSR} THEN 2
    ELSE IF w \in {OP_WRITE_BYTE, OP_WRITE_WORD} THEN 3
    ELSE IF w \in {OP_WRITE_LONG, OP_WRITE_CREG} THEN 4
    ELSE IF RegBase(w) = OP_WRITE_REG THEN 2
    ELSE 0

IsOpcode(w) ==
    \/ w \in {OP_NOOP, OP_GO, OP_READ_BYTE, OP_READ_WORD, OP_READ_LONG, OP_READ_CREG,
              OP_READ_CSR, OP_WRITE_CSR, OP_WRITE_BYTE, OP_WRITE_WORD, OP_WRITE_LONG,
              OP_WRITE_CREG, OP_DUMP_WORD}
    \/ RegBase(w) \in {OP_READ_REG, OP_WRITE_REG}

MemWord(t, a) == IF a \in RamAddrs THEN t.mem[a] ELSE 65535

\* The address n bytes after a, within 32 bits.
AddrPlus(a, n) ==
    Long((Hi(a) + ((Lo(a) + n) \div 65536)) % 65536, (Lo(a) + n) % 65536)

\* A target that is not halted changes its registers by itself: drift = <<k, r, v>> says that
\* register r takes the value v when the k-th register read from now runs (<<>>: never).
Drifted(t) ==
    IF t.drift = <<>> THEN t
    ELSE IF t.drift[1] = 0 THEN [t EXCEPT !.regs[t.drift[2]] = t.drift[3], !.drift = <<>>]
    ELSE [t EXCEPT !.drift[1] = @ - 1]

\* The register read w on target t.
ReadRegister(t, w) ==
    [t EXCEPT !.out = <<<<0, Hi(t.regs[RegField(w)])>>, <<0, Lo(t.regs[RegField(w)])>>>>]

\* The target runs the complete command c = <<opcode, operand, ...>>.
TargetExecute(t, c) ==
    LET w == c[1] IN
    IF w = OP_GO THEN
        [t EXCEPT !.resume = IF Bit(Lo(t.csr), 4) = 1 THEN "step" ELSE "run",
                  !.out = <<RSP_COMPLETE>>]
    ELSE IF w = OP_READ_CSR THEN
        [t EXCEPT !.out = <<<<0, Hi(t.csr)>>, <<0, Lo(t.csr)>>>>]
    ELSE IF w = OP_WRITE_CSR THEN
        [t EXCEPT !.csr = Long(c[2], c[3]), !.out = <<RSP_COMPLETE>>]
    ELSE IF RegBase(w) = OP_READ_REG THEN ReadRegister(Drifted(t), w)
    ELSE IF RegBase(w) = OP_WRITE_REG THEN
        [t EXCEPT !.regs[RegField(w)] = Long(c[2], c[3]), !.out = <<RSP_COMPLETE>>]
    ELSE IF w = OP_READ_CREG THEN
        IF c[3] = CR_PC
        THEN [t EXCEPT !.out = <<<<0, Hi(t.pc)>>, <<0, Lo(t.pc)>>>>]
        ELSE [t EXCEPT !.out = <<<<0, 0>>, <<0, 0>>>>]
    ELSE IF w = OP_WRITE_CREG THEN
        IF c[3] = CR_PC
        THEN [t EXCEPT !.pc = Long(c[4], c[5]), !.out = <<RSP_COMPLETE>>]
        ELSE [t EXCEPT !.out = <<RSP_COMPLETE>>]
    ELSE IF w \in {OP_READ_BYTE, OP_READ_WORD, OP_READ_LONG} THEN
        LET a == Long(c[2], c[3]) IN
        IF ~IsMapped(a) THEN [t EXCEPT !.out = <<RSP_ERROR>>]
        ELSE IF w = OP_READ_BYTE THEN [t EXCEPT !.out = <<<<0, MemWord(t, a) \div 256>>>>]
        ELSE IF w = OP_READ_WORD THEN
            [t EXCEPT !.out = <<<<0, MemWord(t, a)>>>>, !.addr = <<a>>]
        ELSE [t EXCEPT !.out = <<<<0, MemWord(t, a)>>,
                                  <<0, MemWord(t, Long(Hi(a), (Lo(a) + 2) % 65536))>>>>]
    ELSE IF w \in {OP_WRITE_BYTE, OP_WRITE_WORD, OP_WRITE_LONG} THEN
        LET a == Long(c[2], c[3]) IN
        IF ~IsMapped(a) THEN [t EXCEPT !.out = <<RSP_ERROR>>]
        ELSE IF a \notin RamAddrs THEN [t EXCEPT !.out = <<RSP_COMPLETE>>]
        ELSE IF w = OP_WRITE_BYTE THEN
            [t EXCEPT !.mem[a] = (c[4] % 256) * 256 + (t.mem[a] % 256),
                      !.out = <<RSP_COMPLETE>>]
        ELSE IF w = OP_WRITE_WORD THEN
            [t EXCEPT !.mem[a] = c[4], !.out = <<RSP_COMPLETE>>]
        ELSE LET a2 == Long(Hi(a), (Lo(a) + 2) % 65536) IN
            [t EXCEPT !.mem = [x \in RamAddrs |->
                                 IF x = a THEN c[4] ELSE IF x = a2 THEN c[5] ELSE t.mem[x]],
                      !.out = <<RSP_COMPLETE>>]
    ELSE IF w = OP_DUMP_WORD THEN
        IF t.addr = <<>> THEN [t EXCEPT !.out = <<RSP_ILLEGAL>>]
        ELSE IF ~IsMapped(AddrPlus(t.addr[1], 2)) THEN [t EXCEPT !.out = <<RSP_ERROR>>]
        ELSE [t EXCEPT !.out = <<<<0, MemWord(t, AddrPlus(t.addr[1], 2))>>>>,
                       !.addr = <<AddrPlus(t.addr[1], 2)>>]
    ELSE [t EXCEPT !.out = <<RSP_COMPLETE>>]

\* One transfer: word w is shifted in, the pending response is shifted out.
TargetReply(t) == IF t.out = <<>> THEN RSP_NOT_READY ELSE Head(t.out)

TargetShift(t, w) ==
    LET rest == IF t.out = <<>> THEN <<>> ELSE Tail(t.out) IN
    IF t.cmd # <<>> THEN
        LET c == Append(t.cmd, w) IN
        IF Len(c) = 1 + NumOperands(c[1])
        THEN TargetExecute([t EXCEPT !.cmd = <<>>], c)
        ELSE [t EXCEPT !.cmd = c, !.out = <<RSP_NOT_READY>>]
    ELSE IF w = OP_NOOP THEN
        [t EXCEPT !.out = IF rest = <<>> THEN <<RSP_COMPLETE>> ELSE rest]
    ELSE IF ~IsOpcode(w) THEN [t EXCEPT !.out = <<RSP_ILLEGAL>>]
    ELSE IF NumOperands(w) = 0 THEN TargetExecute(t, <<w>>)
    ELSE [t EXCEPT !.cmd = <<w>>, !.out = <<RSP_NOT_READY>>]

(***************************************************************************)
(* The Arduino bridge: one framed command from the serial line becomes one *)
(* transfer; 'r' and 'S' send the response back as 3 bytes: the status     *)
(* marker, then the data word, least significant byte first.               *)
(***************************************************************************)
\* b"PONG"
PONG == <<80, 79, 78, 71>>

BridgeFrame(rsp) == <<IF rsp[1] = 1 THEN Ch_N ELSE Ch_Y, rsp[2] % 256, rsp[2] \div 256>>

\* The bridge handles the bytes of one serial write: the target afterwards and the bytes sent back.
BridgeHandle(t, bytes) ==
    IF bytes[1] = Ch_s THEN
        [tgt |-> TargetShift(t, bytes[2] * 256 + bytes[3]), back |-> <<>>]
    ELSE IF bytes[1] = Ch_S THEN
        [tgt |-> TargetShift(t, bytes[2] * 256 + bytes[3]), back |-> BridgeFrame(TargetReply(t))]
    ELSE IF bytes[1] = Ch_r THEN
        [tgt |-> TargetShift(t, OP_NOOP), back |-> BridgeFrame(TargetReply(t))]
    ELSE IF bytes[1] = Ch_P THEN [tgt |-> t, back |-> PONG]
    ELSE IF bytes[1] = Ch_R THEN
        [tgt |-> [t EXCEPT !.resume = "halted", !.cmd = <<>>, !.out = <<>>], back |-> <<>>]
    ELSE IF bytes[1] = Ch_B THEN [tgt |-> [t EXCEPT !.resume = "halted"], back |-> <<>>]
    ELSE [tgt |-> t, back |-> <<>>]

(***************************************************************************)
(* ColdfireSerialInterface.  A call in progress is a record io: the        *)
(* transport events so far (log), the bytes waiting in the serial receive  *)
(* buffer (rx), the target, the exception raised so far (err: once one is  *)
(* raised the rest of the call does not run), the last packet decoded      *)
(* (resp, the data words decoded so far), the value returned (ret, <<>> for *)
(* None) and the values a method has collected in its lists (vals).        *)
(***************************************************************************)
Begin ==
    [log |-> <<>>, rx |-> <<>>, tgt |-> tgt, err |-> ERR_NONE,
     resp |-> <<>>, ret |-> <<>>, vals |-> <<>>,
     current_step_mode |-> current_step_mode,
     in_unlock_bypass_mode |-> in_unlock_bypass_mode,
     csr_written |-> csr_written]

\* serial.write(bytes)
SerialWrite(io, bytes) ==
    LET h == BridgeHandle(io.tgt, bytes) IN
    [io EXCEPT !.log = Append(@, <<"write", bytes>>), !.tgt = h.tgt, !.rx = @ \o h.back]

\* serial.read(n) followed by the decoding of _receive_packet
ReceivePacket_(io) ==
    LET bytes == SubSeq(io.rx, 1, 3)
        r == DecodeFrame(bytes)
    IN [io EXCEPT !.log = Append(@, <<"read", bytes>>),
                  !.rx = SubSeq(@, 4, Len(@)),
                  !.err = r.err,
                  !.resp = Append(@, r.data)]

\* ColdfireSerialInterface.send_packet
send_packet(io, data) ==
    IF io.err # ERR_NONE THEN io
    ELSE IF ~IsWord(data) THEN [io EXCEPT !.err = ERR_STRUCT]
    ELSE SerialWrite(io, <<Ch_s>> \o PackBE(data))

\* ColdfireSerialInterface.receive_packet
receive_packet(io) ==
    IF io.err # ERR_NONE THEN io
    ELSE ReceivePacket_(SerialWrite(io, <<Ch_r>>))

\* send_and_receive_packet wrongly packing the word least significant byte first.
send_and_receive_packet_le(io, data) ==
    IF io.err # ERR_NONE THEN io
    ELSE IF ~IsWord(data) THEN [io EXCEPT !.err = ERR_STRUCT]
    ELSE ReceivePacket_(SerialWrite(io, <<Ch_S, data % 256, data \div 256>>))

\* ColdfireSerialInterface.send_and_receive_packet
send_and_receive_packet(io, data) ==
    IF io.err # ERR_NONE THEN io
    ELSE IF ~IsWord(data) THEN [io EXCEPT !.err = ERR_STRUCT]
    ELSE ReceivePacket_(SerialWrite(io, <<Ch_S>> \o PackBE(data)))

\* ColdfireSerialInterface.enter_debug_mode
enter_debug_mode(io, reset) ==
    IF io.err # ERR_NONE THEN io
    ELSE IF reset THEN SerialWrite(io, <<Ch_R>>) ELSE SerialWrite(io, <<Ch_B>>)

\* response = self.serial.read(4); if response != b"PONG": raise
ReadPong(io) ==
    IF SubSeq(io.rx, 1, 4) # PONG
    THEN [io EXCEPT !.log = Append(@, <<"read", SubSeq(io.rx, 1, 4)>>),
                    !.rx = SubSeq(@, 5, Len(@)), !.err = ERR_PING]
    ELSE [io EXCEPT !.log = Append(@, <<"read", SubSeq(io.rx, 1, 4)>>),
                    !.rx = SubSeq(@, 5, Len(@))]

\* ColdfireSerialInterface.test_connection
test_connection(io) ==
    IF io.err # ERR_NONE THEN io ELSE ReadPong(SerialWrite(io, <<Ch_P>>))

\* The lines the bridge prints are sequences of words; marker in line (a substring test).
Contains(line, marker) ==
    \E i \in 1..(Len(line) - Len(marker) + 1) : SubSeq(line, i, i + Len(marker) - 1) = marker

BANNER == <<"Motorola", "Coldfire", "Debug", "Interface">>
READY == <<"Ready">>

\* line = self.serial.readline()...; if not marker in line: raise RuntimeError
ReadLineExpecting(io, line, marker) ==
    IF io.err # ERR_NONE THEN io
    ELSE IF ~Contains(line, marker)
    THEN [io EXCEPT !.log = Append(@, <<"readline", line>>), !.err = ERR_HANDSHAKE]
    ELSE [io EXCEPT !.log = Append(@, <<"readline", line>>)]

\* __init__ wrongly accepting any second line.
handshake_first_line_only(io, first_line, second_line) ==
    ReadLineExpecting(ReadLineExpecting(io, first_line, BANNER), second_line, <<>>)

\* ColdfireSerialInterface.__init__
handshake(io, first_line, second_line) ==
    ReadLineExpecting(ReadLineExpecting(io, first_line, BANNER), second_line, READY)

(***************************************************************************)
(* BDMCommandInterface.  The record of a call in progress also carries the *)
(* two fields of the engine, current_step_mode and in_unlock_bypass_mode,  *)
(* and csr_written, the data words of the last write-CSR command put on    *)
(* the wire (<<>> when none was).                                          *)
(***************************************************************************)
RECURSIVE _send(_, _)
\* BDMCommandInterface._send
_send(io, commands) ==
    IF commands = <<>> THEN io
    ELSE _send(send_and_receive_packet(io, Head(commands)), Tail(commands))

RECURSIVE ReceiveWords(_, _)
\* responses = [self.interface.receive_packet() for _ in range(response_size_words)]
ReceiveWords(io, n) ==
    IF n = 0 THEN io ELSE ReceiveWords(receive_packet(io), n - 1)

\* The tail of _send_then_receive: the value returned, from the last n packets decoded.
ResponseData(io, n) ==
    IF io.err # ERR_NONE THEN io
    ELSE IF n = 2
         THEN [io EXCEPT !.ret = <<Long(io.resp[Len(io.resp) - 1], io.resp[Len(io.resp)])>>]
         ELSE [io EXCEPT !.ret = <<io.resp[Len(io.resp)]>>]

\* _send_then_receive wrongly taking its result from the packets that came back with the
\* command words instead of the packets received after them.
_send_then_receive_stale(io, commands, response_size_words) ==
    IF io.err # ERR_NONE THEN io
    ELSE ReceiveWords(ResponseData(_send(io, commands), response_size_words),
                      response_size_words)

\* BDMCommandInterface._send_then_receive
_send_then_receive(io, commands, response_size_words) ==
    IF io.err # ERR_NONE THEN io
    ELSE ResponseData(ReceiveWords(_send(io, commands), response_size_words),
                      response_size_words)

\* A call that returns None.
ReturnNone(io) == IF io.err # ERR_NONE THEN io ELSE [io EXCEPT !.ret = <<>>]

\* raise <err>
Raise(io, err) == IF io.err # ERR_NONE THEN io ELSE [io EXCEPT !.err = err]

noop(io) == _send_then_receive(io, <<OP_NOOP>>, 1)

\* the & 0xFF of read_byte
LowByte(io) == IF io.err # ERR_NONE THEN io ELSE [io EXCEPT !.ret = <<io.ret[1] % 256>>]

read_byte(io, address) ==
    LowByte(_send_then_receive(io, <<OP_READ_BYTE, Hi(address), Lo(address)>>, 1))

read_word(io, address) ==
    _send_then_receive(io, <<OP_READ_WORD, Hi(address), Lo(address)>>, 1)

read_longword(io, address) ==
    _send_then_receive(io, <<OP_READ_LONG, Hi(address), Lo(address)>>, 2)

read_address_register(io, register_number) ==
    IF register_number > (NUM_ADDRESS_REGISTERS - 1) \/ register_number < 0
    THEN Raise(io, ERR_VALIDATION)
    ELSE _send_then_receive(io, <<BitOr(OP_READ_AREG, register_number)>>, 2)

read_data_register(io, register_number) ==
    IF register_number > (NUM_DATA_REGISTERS - 1) \/ register_number < 0
    THEN Raise(io, ERR_VALIDATION)
    ELSE _send_then_receive(io, <<BitOr(OP_READ_REG, register_number)>>, 2)

read_control_register(io, register_encoding) ==
    IF register_encoding < 0 \/ register_encoding > 4095
    THEN Raise(io, ERR_VALIDATION)
    ELSE _send_then_receive(io, <<OP_READ_CREG, 0, register_encoding % 4096>>, 2)

\* The data of the ConfigurationStatusRegister returned is in ret.
read_debug_configuration_status_register(io) ==
    _send_then_receive(io, <<OP_READ_CSR>>, 2)

\* ConfigurationStatusRegister.single_step_mode
single_step_mode(data) == Bit(Lo(data), 4) = 1

\* new_value & 0xFFF, the low data word write_debug_configuration_status_register sends
CsrLowWord(new_value) == Lo(new_value) % 4096

\* The words put on the wire with 'S' after the first n transport events of io, in order.
WordsSent(io, n) ==
    LET f[k \in n..Len(io.log)] ==
            IF k = n THEN <<>>
            ELSE IF io.log[k][1] = "write" /\ io.log[k][2][1] = Ch_S
                 THEN Append(f[k - 1], io.log[k][2][2] * 256 + io.log[k][2][3])
                 ELSE f[k - 1]
    IN f[Len(io.log)]

\* History: the data words of the write-CSR command, once all three words are on the wire.
NoteCsrWrite(io, n) ==
    IF Len(WordsSent(io, n)) = 3
    THEN [io EXCEPT !.csr_written = SubSeq(WordsSent(io, n), 2, 3)]
    ELSE io

write_debug_configuration_status_register(io, new_value) ==
    IF io.err # ERR_NONE THEN io
    ELSE NoteCsrWrite(
             _send_then_receive(io, <<OP_WRITE_CSR, Hi(new_value), CsrLowWord(new_value)>>, 1),
             Len(io.log))

\* new_register = csr.data; new_register &= 0xFFFFFFEF; if enabled: new_register |= 0b10000
NewRegister(data, enabled) ==
    Long(Hi(data),
         IF enabled THEN BitOr(BitAnd(Lo(data), 65519), 16) ELSE BitAnd(Lo(data), 65519))

\* self.write_debug_configuration_status_register(new_register), csr being in io.ret
WriteBack(io, enabled) ==
    IF io.err # ERR_NONE THEN io
    ELSE write_debug_configuration_status_register(io, NewRegister(io.ret[1], enabled))

\* self.current_step_mode = enabled
SetStepMode(io, enabled) ==
    IF io.err # ERR_NONE THEN io
    ELSE [io EXCEPT !.current_step_mode = enabled, !.ret = <<>>]

\* set_single_step_mode without the test of the cached mode
set_single_step_mode_always(io, enabled) ==
    IF io.err # ERR_NONE THEN io
    ELSE SetStepMode(WriteBack(read_debug_configuration_status_register(io), enabled), enabled)

set_single_step_mode(io, enabled) ==
    IF io.err # ERR_NONE THEN io
    ELSE IF io.current_step_mode = enabled THEN ReturnNone(io)
    ELSE SetStepMode(WriteBack(read_debug_configuration_status_register(io), enabled), enabled)

go(io) == _send_then_receive(set_single_step_mode(io, FALSE), <<OP_GO>>, 1)

step(io) == _send_then_receive(set_single_step_mode(io, TRUE), <<OP_GO>>, 1)

write_byte(io, address, data) ==
    IF data > 255 \/ data < 0
    THEN Raise(io, ERR_VALIDATION)
    ELSE ReturnNone(_send(io, <<OP_WRITE_BYTE, Hi(address), Lo(address), data % 256>>))

\* write_word with the range test after the command and address words are sent
write_word_late_check(io, address, data) ==
    IF data > 65535 \/ data < 0
    THEN Raise(_send(io, <<OP_WRITE_WORD, Hi(address), Lo(address)>>), ERR_VALIDATION)
    ELSE ReturnNone(_send(io, <<OP_WRITE_WORD, Hi(address), Lo(address), data>>))

write_word(io, address, data) ==
    IF data > 65535 \/ data < 0
    THEN Raise(io, ERR_VALIDATION)
    ELSE ReturnNone(_send(io, <<OP_WRITE_WORD, Hi(address), Lo(address), data>>))

write_longword(io, address, data) ==
    ReturnNone(_send(io, <<OP_WRITE_LONG, Hi(address), Lo(address), Hi(data), Lo(data)>>))

write_control_register(io, register, data) ==
    ReturnNone(_send(io, <<OP_WRITE_CREG, 0, register % 65536, Hi(data), Lo(data)>>))

\* The argument data is not used.
write_address_register(io, register_number, data) ==
    IF register_number > (NUM_ADDRESS_REGISTERS - 1) \/ register_number < 0
    THEN Raise(io, ERR_VALIDATION)
    ELSE _send_then_receive(io, <<BitOr(OP_WRITE_AREG, register_number)>>, 1)

\* The argument data is not used.
write_data_register(io, register_number, data) ==
    IF register_number > (NUM_DATA_REGISTERS - 1) \/ register_number < 0
    THEN Raise(io, ERR_VALIDATION)
    ELSE _send_then_receive(io, <<BitOr(OP_WRITE_REG, register_number)>>, 1)

\* Flash command addresses 0x555 << 1 and 0x2AA << 1.
FLASH_555 == Long(0, 2730)
FLASH_2AA == Long(0, 1364)
FLASH_000 == Long(0, 0)

send_flash_write_enable(io) ==
    write_word(write_word(write_word(io, FLASH_555, 170), FLASH_2AA, 85), FLASH_555, 160)

\* self.in_unlock_bypass_mode = value
SetBypassMode(io, value) ==
    IF io.err # ERR_NONE THEN io
    ELSE [io EXCEPT !.in_unlock_bypass_mode = value, !.ret = <<>>]

enter_flash_unlock_bypass(io) ==
    SetBypassMode(
        write_word(write_word(write_word(io, FLASH_555, 170), FLASH_2AA, 85), FLASH_555, 32),
        "True")

\* send_unlock_bypassed_flash_write with its two word writes in the wrong order
send_unlock_bypassed_flash_write_swapped(io, address, data) ==
    IF io.err # ERR_NONE THEN io
    ELSE IF io.in_unlock_bypass_mode = "missing" THEN Raise(io, ERR_ATTRIBUTE)
    ELSE IF io.in_unlock_bypass_mode # "True" THEN Raise(io, ERR_STATE)
    ELSE write_word(write_word(io, address, data), FLASH_000, 160)

send_unlock_bypassed_flash_write(io, address, data) ==
    IF io.err # ERR_NONE THEN io
    ELSE IF io.in_unlock_bypass_mode = "missing" THEN Raise(io, ERR_ATTRIBUTE)
    ELSE IF io.in_unlock_bypass_mode # "True" THEN Raise(io, ERR_STATE)
    ELSE write_word(write_word(io, FLASH_000, 160), address, data)

\* exit_flash_unlock_bypass leaving in_unlock_bypass_mode as it is
exit_flash_unlock_bypass_keep(io) ==
    write_word(write_word(io, FLASH_000, 144), FLASH_000, 0)

exit_flash_unlock_bypass(io) ==
    SetBypassMode(write_word(write_word(io, FLASH_000, 144), FLASH_000, 0), "False")

\* The six erase-key writes that precede the wait.
EraseKeys(io) ==
    write_word(
        write_word(
            write_word(
                write_word(
                    write_word(
                        write_word(io, FLASH_555, 170),
                        FLASH_2AA, 85),
                    FLASH_555, 128),
                FLASH_555, 170),
            FLASH_2AA, 85),
        FLASH_555, 16)

\* time.sleep(seconds), recorded in the log of the call between the transport events
ERASE_WAIT_SECONDS == 30
Sleep(io, seconds) ==
    IF io.err # ERR_NONE THEN io
    ELSE [io EXCEPT !.log = Append(@, <<"sleep", <<seconds>>>>)]

\* send_flash_chip_erase without its wait
send_flash_chip_erase_no_wait(io) == write_word(EraseKeys(io), FLASH_555, 240)

send_flash_chip_erase(io) ==
    write_word(Sleep(EraseKeys(io), ERASE_WAIT_SECONDS), FLASH_555, 240)

(***************************************************************************)
(* The state after construction, and one action per public method.         *)
(***************************************************************************)
\* Values the inputs are drawn from.
RegisterNumbers == {-1, 0, 7, 8}
LongValues == {Long(0, 16), Long(43981, 61423)}
Addresses == {Long(0, 4096), Long(32, 0)}
\* Addresses given to read_word, write_byte and write_word: also the negative address -1.
WriteAddresses == Addresses \cup {Long(-1, 65535)}
ByteValues == {90, 256, -1}
WordValues == {42405, 65536, -1}
ControlEncodings == {-1, CR_PC, 4096}
InitialCsrs == {Long(0, 16), Long(256, 61440)}

\* No dump_words generator has been made; no command-line loop is running.
NoGenerator ==
    [state |-> "none", base |-> <<>>, count |-> 0, num_words |-> 0, yielded |-> <<>>, log |-> <<>>]
NoLoop == [state |-> "none", plan |-> <<>>, at |-> 0]
\* The serial interface the engine is constructed on.
\* MockColdfireSerialInterface(): self.commands_sent = []
NewMock == [commands_sent |-> <<>>, err |-> ERR_NONE]

ReadyInterface == [state |-> "ready", trace |-> <<>>, mock |-> NewMock]

InitialTarget(csr) ==
    [regs |-> [i \in 0..15 |-> Long(i, 256 + i)],
     csr |-> csr,
     pc |-> Long(0, 1024),
     mem |-> [a \in RamAddrs |-> 4369 * (1 + ((Lo(a) - 4096) \div 2))],
     addr |-> <<>>,
     drift |-> <<>>,
     cmd |-> <<>>,
     out |-> <<>>,
     resume |-> "halted"]

\* BDMCommandInterface.__init__ : in_unlock_bypass_mode is not assigned.
Init ==
    /\ current_step_mode = FALSE
    /\ in_unlock_bypass_mode = "missing"
    /\ \E c \in InitialCsrs : tgt = InitialTarget(c)
    /\ op = [name |-> "__init__", args |-> <<>>]
    /\ log = <<>>
    /\ outcome = [err |-> ERR_NONE, ret |-> <<>>]
    /\ csr_written = <<>>
    /\ pre = [current_step_mode |-> FALSE, in_unlock_bypass_mode |-> "missing"]
    /\ nOps = 0
    /\ gen = NoGenerator
    /\ iface = ReadyInterface
    /\ proc = NoLoop

\* What name(args), which ran and ended as io, leaves behind.
Ran(name, args, io) ==
    /\ op' = [name |-> name, args |-> args]
    /\ log' = io.log
    /\ tgt' = io.tgt
    /\ outcome' = [err |-> io.err, ret |-> io.ret]
    /\ current_step_mode' = io.current_step_mode
    /\ in_unlock_bypass_mode' = io.in_unlock_bypass_mode
    /\ csr_written' = io.csr_written

\* The call name(args) ran and ended as io.
Call(name, args, io) ==
    /\ nOps < MaxOps
    /\ nOps' = nOps + 1
    /\ Ran(name, args, io)
    /\ pre' = [current_step_mode |-> current_step_mode,
               in_unlock_bypass_mode |-> in_unlock_bypass_mode]
    /\ UNCHANGED session

Noop == Call("noop", <<>>, noop(Begin))
Go == Call("go", <<>>, go(Begin))
Step == Call("step", <<>>, step(Begin))
ReadByte == \E a \in Addresses : Call("read_byte", <<a>>, read_byte(Begin, a))
ReadWord == \E a \in WriteAddresses : Call("read_word", <<a>>, read_word(Begin, a))
ReadLongword == \E a \in Addresses : Call("read_longword", <<a>>, read_longword(Begin, a))
ReadAddressRegister ==
    \E n \in RegisterNumbers :
        Call("read_address_register", <<n>>, read_address_register(Begin, n))
ReadDataRegister ==
    \E n \in RegisterNumbers :
        Call("read_data_register", <<n>>, read_data_register(Begin, n))
ReadControlRegister ==
    \E e \in ControlEncodings :
        Call("read_control_register", <<e>>, read_control_register(Begin, e))
ReadCsr ==
    Call("read_debug_configuration_status_register", <<>>,
         read_debug_configuration_status_register(Begin))
WriteCsr ==
    \E v \in LongValues :
        Call("write_debug_configuration_status_register", <<v>>,
             write_debug_configuration_status_register(Begin, v))
SetSingleStepMode ==
    \E b \in BOOLEAN :
        Call("set_single_step_mode", <<b>>, set_single_step_mode(Begin, b))
WriteByte ==
    \E a \in WriteAddresses, d \in ByteValues :
        Call("write_byte", <<a, d>>, write_byte(Begin, a, d))
WriteWord ==
    \E a \in WriteAddresses, d \in WordValues :
        Call("write_word", <<a, d>>, write_word(Begin, a, d))
WriteLongword ==
    \E a \in Addresses, d \in LongValues :
        Call("write_longword", <<a, d>>, write_longword(Begin, a, d))
WriteControlRegister ==
    \E e \in ControlEncodings, d \in LongValues :
        Call("write_control_register", <<e, d>>, write_control_register(Begin, e, d))
WriteAddressRegister ==
    \E n \in RegisterNumbers, d \in LongValues :
        Call("write_address_register", <<n, d>>, write_address_register(Begin, n, d))
WriteDataRegister ==
    \E n \in RegisterNumbers, d \in LongValues :
        Call("write_data_register", <<n, d>>, write_data_register(Begin, n, d))
SendFlashWriteEnable == Call("send_flash_write_enable", <<>>, send_flash_write_enable(Begin))
EnterFlashUnlockBypass ==
    Call("enter_flash_unlock_bypass", <<>>, enter_flash_unlock_bypass(Begin))
SendUnlockBypassedFlashWrite ==
    \E a \in Addresses, d \in WordValues :
        Call("send_unlock_bypassed_flash_write", <<a, d>>,
             send_unlock_bypassed_flash_write(Begin, a, d))
ExitFlashUnlockBypass ==
    Call("exit_flash_unlock_bypass", <<>>, exit_flash_unlock_bypass(Begin))
SendFlashChipErase == Call("send_flash_chip_erase", <<>>, send_flash_chip_erase(Begin))

Next ==
    \/ Noop \/ Go \/ Step
    \/ ReadByte \/ ReadWord \/ ReadLongword
    \/ ReadAddressRegister \/ ReadDataRegister \/ ReadControlRegister
    \/ ReadCsr \/ WriteCsr \/ SetSingleStepMode
    \/ WriteByte \/ WriteWord \/ WriteLongword \/ WriteControlRegister
    \/ WriteAddressRegister \/ WriteDataRegister
    \/ SendFlashWriteEnable \/ EnterFlashUnlockBypass \/ SendUnlockBypassedFlashWrite
    \/ ExitFlashUnlockBypass \/ SendFlashChipErase

Spec == Init /\ [][Next]_vars

(***************************************************************************)
(* The packet codec alone: Response is constructed from a status and a     *)
(* data word, and _receive_packet decodes a 3-byte frame.                  *)
(***************************************************************************)
StatusValues == {0, 1}
DataWords == (0..31) \cup (65504..65535)
FrameStatusBytes == {Ch_N, Ch_Y, 0, 110}
FrameDataBytes == {0, 1, 2, 254, 255}

\* The fields the constructor set and the exception it raised.
Constructed(r) == [err |-> r.err, ret |-> <<r.status, r.data>>]

ConstructResponse ==
    \E st \in StatusValues, d \in DataWords :
        /\ op' = [name |-> "Response", args |-> <<st, d>>]
        /\ outcome' = Constructed(Response(st, d))
        /\ UNCHANGED <<current_step_mode, in_unlock_bypass_mode, tgt, log, csr_written, pre, nOps>>
        /\ UNCHANGED session

ReceiveFrame ==
    \E b0 \in FrameStatusBytes, b1 \in FrameDataBytes, b2 \in FrameDataBytes :
        /\ op' = [name |-> "_receive_packet", args |-> <<b0, b1, b2>>]
        /\ outcome' = Constructed(DecodeFrame(<<b0, b1, b2>>))
        /\ UNCHANGED <<current_step_mode, in_unlock_bypass_mode, tgt, log, csr_written, pre, nOps>>
        /\ UNCHANGED session

NextCodec == ConstructResponse \/ ReceiveFrame

SpecCodec == Init /\ [][NextCodec]_vars

(***************************************************************************)
(* dump_words is a generator function: calling it runs none of its body,   *)
(* and every next() runs the body up to the next yield.  gen.state is      *)
(* where the generator is suspended: "created" before the first next(),    *)
(* "in_loop" at the yield of the for loop, "at_end" at the last yield,     *)
(* "finished" after it returned and "failed" after it raised.              *)
(* gen.num_words is the local num_words, then the iterations of            *)
(* range(num_words) still to run; gen.yielded and gen.log are the words    *)
(* yielded and the transport events made so far.                           *)
(***************************************************************************)
DumpBases == {Long(0, 4096), Long(0, 4100)}
DumpCounts == 0..MaxWords

\* The iterations of the for loop still to run when generator g is resumed.
Remaining(g) == IF g.state = "created" THEN g.num_words - 1 ELSE g.num_words

\* yield <the packet just received>.data; also the data of a packet returned
Yield(io) == IF io.err # ERR_NONE THEN io ELSE [io EXCEPT !.ret = <<io.resp[Len(io.resp)]>>]

\* The final step of dump_words, wrongly sending one more dump command instead of draining.
DumpStepNoDrain(io, left) == Yield(send_and_receive_packet(io, OP_DUMP_WORD))

\* One yield of dump_words: inside the loop while iterations are left, the last one after it.
DumpStep(io, left) ==
    IF left > 0
    THEN Yield(send_and_receive_packet(io, OP_DUMP_WORD))
    ELSE Yield(receive_packet(io))

\* BDMCommandInterface.dump_words, from where generator g is suspended to its next yield.
dump_words(io, g) ==
    IF g.state = "created" THEN
        DumpStep(send_packet(send_packet(send_packet(io, OP_READ_WORD), Hi(g.base)), Lo(g.base)),
                 Remaining(g))
    ELSE IF g.state = "in_loop" THEN DumpStep(io, Remaining(g))
    ELSE Raise(io, ERR_STOP)

\* Generator g after the resumption that ended as io.
Resumed(g, io) ==
    IF io.err = ERR_STOP THEN [g EXCEPT !.state = "finished"]
    ELSE IF io.err # ERR_NONE THEN [g EXCEPT !.state = "failed", !.log = @ \o io.log]
    ELSE [g EXCEPT !.state = IF Remaining(g) > 0 THEN "in_loop" ELSE "at_end",
                   !.num_words = IF Remaining(g) > 0 THEN Remaining(g) - 1 ELSE Remaining(g),
                   !.yielded = Append(@, io.ret[1]),
                   !.log = @ \o io.log]

\* The generator object dump_words(base, count) returns.
NewGenerator(base, count) ==
    [state |-> "created", base |-> base, count |-> count, num_words |-> count,
     yielded |-> <<>>, log |-> <<>>]

\* bdm.dump_words(base, count): the generator is made, nothing is sent.
DumpWords ==
    \E base \in DumpBases, count \in DumpCounts :
        /\ gen.state = "none"
        /\ Ran("dump_words", <<base, count>>, Begin)
        /\ gen' = NewGenerator(base, count)
        /\ UNCHANGED <<pre, nOps, iface, proc>>

\* next() on the generator.
DumpNext ==
    /\ gen.state \in {"created", "in_loop", "at_end"}
    /\ Ran("next", <<>>, dump_words(Begin, gen))
    /\ gen' = Resumed(gen, dump_words(Begin, gen))
    /\ UNCHANGED <<pre, nOps, iface, proc>>

\* What is done with the engine before the dump: calls that leave the target between two
\* commands, with or without a response still in flight.
BeforeDump ==
    /\ gen.state = "none"
    /\ nOps < MaxBefore
    /\ (Noop \/ ReadLongword \/ WriteLongword)

NextDump == BeforeDump \/ DumpWords \/ DumpNext

SpecDump == Init /\ [][NextDump]_vars

(***************************************************************************)
(* consistency_check.  The values it reads are collected in io.vals, in    *)
(* the order read: 1..8 address_contents, 9..16 data_contents, 17..24 and  *)
(* 25..32 the second pass, 33..40 and 41..48 the pass after the writes.    *)
(* expected is expected_address_contents followed by                       *)
(* expected_data_contents.  The target it runs against may be halted       *)
(* (drift = <<>>) or still running (one register changes at some read).    *)
(***************************************************************************)
NumRegisters == NUM_ADDRESS_REGISTERS + NUM_DATA_REGISTERS

\* <list>.append(<value returned>)
Keep(io) == IF io.err # ERR_NONE THEN io ELSE [io EXCEPT !.vals = Append(@, io.ret[1])]

RECURSIVE ReadRegisters(_, _, _)
\* [self.read_address_register(i) for i in range(8)] when address, else the data registers
ReadRegisters(io, address, i) ==
    IF io.err # ERR_NONE \/ i = NUM_ADDRESS_REGISTERS THEN io
    ELSE ReadRegisters(Keep(IF address THEN read_address_register(io, i)
                                       ELSE read_data_register(io, i)),
                       address, i + 1)

\* if <the 8 values read from position again> != <the 8 values read from position first>: raise
CompareReads(io, again, first, err) ==
    IF io.err # ERR_NONE THEN io
    ELSE IF SubSeq(io.vals, again, again + 7) # SubSeq(io.vals, first, first + 7)
    THEN Raise(io, err)
    ELSE io

\* if <the 8 values read from position again> != values: raise
CompareWritten(io, again, values, err) ==
    IF io.err # ERR_NONE THEN io
    ELSE IF SubSeq(io.vals, again, again + 7) # values THEN Raise(io, err)
    ELSE io

RECURSIVE WriteRegisters(_, _, _, _)
\* for i, value in enumerate(values): self.write_address_register(i, value), or the data register
WriteRegisters(io, address, values, i) ==
    IF io.err # ERR_NONE \/ i = Len(values) THEN io
    ELSE WriteRegisters(IF address THEN write_address_register(io, i, values[i + 1])
                                   ELSE write_data_register(io, i, values[i + 1]),
                        address, values, i + 1)

\* The two passes of reads, wrongly without their comparison.
ReadTwiceUnchecked(io) ==
    ReadRegisters(ReadRegisters(ReadRegisters(ReadRegisters(io, TRUE, 0), FALSE, 0), TRUE, 0),
                  FALSE, 0)

\* The two passes of reads and their comparison.
ReadTwice(io) ==
    CompareReads(
        ReadRegisters(
            CompareReads(
                ReadRegisters(ReadRegisters(ReadRegisters(io, TRUE, 0), FALSE, 0), TRUE, 0),
                17, 1, ERR_INCONSISTENT),
            FALSE, 0),
        25, 9, ERR_INCONSISTENT)

\* The writes of the random values and the pass that checks they stuck.
WriteAndVerify(io, expected) ==
    CompareWritten(
        ReadRegisters(
            CompareWritten(
                ReadRegisters(
                    WriteRegisters(WriteRegisters(io, TRUE, SubSeq(expected, 1, 8), 0),
                                   FALSE, SubSeq(expected, 9, 16), 0),
                    TRUE, 0),
                33, SubSeq(expected, 1, 8), ERR_WRITE_VERIFY),
            FALSE, 0),
        41, SubSeq(expected, 9, 16), ERR_WRITE_VERIFY)

\* The writes of the original values, wrongly issued also after a mismatch was raised.
WriteOriginalsAlways(io) ==
    [WriteRegisters(WriteRegisters([io EXCEPT !.err = ERR_NONE], TRUE, SubSeq(io.vals, 1, 8), 0),
                    FALSE, SubSeq(io.vals, 9, 16), 0) EXCEPT !.err = io.err]

\* The writes of the original values.
WriteOriginals(io) ==
    IF io.err # ERR_NONE THEN io
    ELSE WriteRegisters(WriteRegisters(io, TRUE, SubSeq(io.vals, 1, 8), 0),
                        FALSE, SubSeq(io.vals, 9, 16), 0)

\* BDMCommandInterface.consistency_check
consistency_check(io, expected) ==
    ReturnNone(WriteOriginals(WriteAndVerify(ReadTwice(io), expected)))

\* Registers that change under a running target, and the values they take.
DriftRegisters == {0, 8, 15}
DriftValues == {Long(0, 16)}
Drifts ==
    {<<>>} \cup {<<k, r, v>> : k \in 0..(3 * NumRegisters - 1), r \in DriftRegisters,
                              v \in DriftValues}

\* What random.random() may give for the 16 registers, A0..A7 then D0..D7: the same value for
\* all, or for each register the value a target with registers regs holds once the 16
\* write commands, which carry no data word, have been shifted in.
RandomDraws(regs) ==
    {[i \in 1..NumRegisters |-> v] : v \in LongValues}
    \cup {[i \in 1..NumRegisters |->
             IF i % 2 = 0 THEN regs[(i + 7) % 16]
             ELSE Long(0, BitOr(IF i <= 8 THEN OP_WRITE_AREG ELSE OP_WRITE_REG, i % 8))]}

InitCheck ==
    /\ current_step_mode = FALSE
    /\ in_unlock_bypass_mode = "missing"
    /\ \E c \in InitialCsrs, d \in Drifts : tgt = [InitialTarget(c) EXCEPT !.drift = d]
    /\ op = [name |-> "__init__", args |-> <<>>]
    /\ log = <<>>
    /\ outcome = [err |-> ERR_NONE, ret |-> <<>>]
    /\ csr_written = <<>>
    /\ pre = [current_step_mode |-> FALSE, in_unlock_bypass_mode |-> "missing",
              tgt |-> tgt, expected |-> <<>>]
    /\ nOps = 0
    /\ gen = NoGenerator
    /\ iface = ReadyInterface
    /\ proc = NoLoop

\* bdm.consistency_check(); pre also keeps the target before the call and the values drawn.
ConsistencyCheck ==
    \E expected \in RandomDraws(tgt.regs) :
        /\ nOps < MaxChecks
        /\ nOps' = nOps + 1
        /\ Ran("consistency_check", <<>>, consistency_check(Begin, expected))
        /\ pre' = [current_step_mode |-> current_step_mode,
                   in_unlock_bypass_mode |-> in_unlock_bypass_mode,
                   tgt |-> tgt, expected |-> expected]
        /\ UNCHANGED session

NextCheck == ConsistencyCheck

SpecCheck == InitCheck /\ [][NextCheck]_vars

(***************************************************************************)
(* The pairing of commands and responses.  The engine starts on a target   *)
(* that may still hold the response to an earlier session's last command;  *)
(* reads follow reads, writes that leave their last response unread and    *)
(* register writes.  pre also keeps the target before the call.            *)
(***************************************************************************)
StaleResponses == {<<>>, <<<<0, 4660>>>>, <<RSP_ERROR>>}
LinkRegisters == {0, 7}

InitLink ==
    /\ current_step_mode = FALSE
    /\ in_unlock_bypass_mode = "missing"
    /\ \E c \in InitialCsrs, stale \in StaleResponses :
           tgt = [InitialTarget(c) EXCEPT !.out = stale]
    /\ op = [name |-> "__init__", args |-> <<>>]
    /\ log = <<>>
    /\ outcome = [err |-> ERR_NONE, ret |-> <<>>]
    /\ csr_written = <<>>
    /\ pre = [current_step_mode |-> FALSE, in_unlock_bypass_mode |-> "missing", tgt |-> tgt]
    /\ nOps = 0
    /\ gen = NoGenerator
    /\ iface = ReadyInterface
    /\ proc = NoLoop

LinkCall(name, args, io) ==
    /\ nOps < MaxLinkOps
    /\ nOps' = nOps + 1
    /\ Ran(name, args, io)
    /\ pre' = [current_step_mode |-> current_step_mode,
               in_unlock_bypass_mode |-> in_unlock_bypass_mode, tgt |-> tgt]
    /\ UNCHANGED session

LinkReadMemory ==
    \E a \in Addresses :
        \/ LinkCall("read_byte", <<a>>, read_byte(Begin, a))
        \/ LinkCall("read_word", <<a>>, read_word(Begin, a))
        \/ LinkCall("read_longword", <<a>>, read_longword(Begin, a))

LinkReadRegister ==
    \/ LinkCall("noop", <<>>, noop(Begin))
    \/ \E n \in LinkRegisters :
           \/ LinkCall("read_address_register", <<n>>, read_address_register(Begin, n))
           \/ LinkCall("read_data_register", <<n>>, read_data_register(Begin, n))
    \/ \E e \in ControlEncodings :
           LinkCall("read_control_register", <<e>>, read_control_register(Begin, e))
    \/ LinkCall("read_debug_configuration_status_register", <<>>,
                read_debug_configuration_status_register(Begin))

LinkWrite ==
    \/ \E a \in Addresses, d \in WordValues :
           LinkCall("write_word", <<a, d>>, write_word(Begin, a, d))
    \/ \E n \in LinkRegisters, d \in LongValues :
           LinkCall("write_address_register", <<n, d>>, write_address_register(Begin, n, d))

NextLink == LinkReadMemory \/ LinkReadRegister \/ LinkWrite

SpecLink == InitLink /\ [][NextLink]_vars

(***************************************************************************)
(* ColdfireSerialInterface on its own: the constructor, which reads the    *)
(* two lines the bridge prints when the port is opened, then any calls of  *)
(* its methods.  iface.trace is everything that happened on the port.      *)
(***************************************************************************)
FirstLines ==
    {<<"Motorola", "Coldfire", "Debug", "Interface", "v1">>, <<"Coldfire", "Debug", "Interface">>,
     <<>>}
SecondLines == {<<"Ready">>, <<"Motorola", "Coldfire", "Debug", "Interface">>, <<>>}
PacketWords == {0, 6464, 4096, 65536}

InitSerial ==
    /\ current_step_mode = FALSE
    /\ in_unlock_bypass_mode = "missing"
    /\ \E c \in InitialCsrs : tgt = InitialTarget(c)
    /\ op = [name |-> "serial.Serial", args |-> <<>>]
    /\ log = <<>>
    /\ outcome = [err |-> ERR_NONE, ret |-> <<>>]
    /\ csr_written = <<>>
    /\ pre = [current_step_mode |-> FALSE, in_unlock_bypass_mode |-> "missing"]
    /\ nOps = 0
    /\ gen = NoGenerator
    /\ iface = [state |-> "none", trace |-> <<>>, mock |-> NewMock]
    /\ proc = NoLoop

\* interface = ColdfireSerialInterface(ser)
Construct ==
    \E first_line \in FirstLines, second_line \in SecondLines :
        /\ iface.state = "none"
        /\ Ran("ColdfireSerialInterface", <<first_line, second_line>>,
               handshake(Begin, first_line, second_line))
        /\ iface' = [state |-> IF handshake(Begin, first_line, second_line).err = ERR_NONE
                               THEN "ready" ELSE "failed",
                     trace |-> handshake(Begin, first_line, second_line).log,
                     mock |-> NewMock]
        /\ UNCHANGED <<pre, nOps, gen, proc>>

\* MockColdfireSerialInterface: its state is the list commands_sent; err is what its last call
\* raised.
MockBegin == [iface.mock EXCEPT !.err = ERR_NONE]

\* MockColdfireSerialInterface._receive_packet
mock__receive_packet(m) == [m EXCEPT !.err = Response(0, 65535).err]

\* MockColdfireSerialInterface.test_connection
mock_test_connection(m) == [m EXCEPT !.commands_sent = Append(@, <<Ch_P>>)]

\* MockColdfireSerialInterface.send_packet
mock_send_packet(m, data) ==
    IF ~IsWord(data) THEN [m EXCEPT !.err = ERR_STRUCT]
    ELSE [m EXCEPT !.commands_sent = Append(@, <<Ch_s>> \o PackBE(data))]

\* MockColdfireSerialInterface.receive_packet
mock_receive_packet(m) == mock__receive_packet([m EXCEPT !.commands_sent = Append(@, <<Ch_r>>)])

\* MockColdfireSerialInterface.send_and_receive_packet
mock_send_and_receive_packet(m, data) ==
    IF ~IsWord(data) THEN [m EXCEPT !.err = ERR_STRUCT]
    ELSE mock__receive_packet([m EXCEPT !.commands_sent = Append(@, <<Ch_S>> \o PackBE(data))])

\* The mock's enter_debug_mode with the two commands exchanged.
mock_enter_debug_mode_swapped(m, reset) ==
    IF reset THEN [m EXCEPT !.commands_sent = Append(@, <<Ch_B>>)]
    ELSE [m EXCEPT !.commands_sent = Append(@, <<Ch_R>>)]

\* MockColdfireSerialInterface.enter_debug_mode
mock_enter_debug_mode(m, reset) ==
    IF reset THEN [m EXCEPT !.commands_sent = Append(@, <<Ch_R>>)]
    ELSE [m EXCEPT !.commands_sent = Append(@, <<Ch_B>>)]

\* A method of the interface is called, and the same method of a mock interface that is given
\* the same calls: there is no interface object when __init__ raised.
SerialCall(name, args, io, m) ==
    /\ iface.state = "ready"
    /\ nOps < MaxSerialOps
    /\ nOps' = nOps + 1
    /\ Ran(name, args, io)
    /\ iface' = [iface EXCEPT !.trace = @ \o io.log, !.mock = m]
    /\ UNCHANGED <<pre, gen, proc>>

SendPacket ==
    \E w \in PacketWords :
        SerialCall("send_packet", <<w>>, send_packet(Begin, w), mock_send_packet(MockBegin, w))
ReceivePacket ==
    SerialCall("receive_packet", <<>>, Yield(receive_packet(Begin)),
               mock_receive_packet(MockBegin))
SendAndReceivePacket ==
    \E w \in PacketWords :
        SerialCall("send_and_receive_packet", <<w>>, Yield(send_and_receive_packet(Begin, w)),
                   mock_send_and_receive_packet(MockBegin, w))
EnterDebugMode ==
    \E reset \in BOOLEAN :
        SerialCall("enter_debug_mode", <<reset>>, enter_debug_mode(Begin, reset),
                   mock_enter_debug_mode(MockBegin, reset))
TestConnection ==
    SerialCall("test_connection", <<>>, test_connection(Begin), mock_test_connection(MockBegin))

NextSerial ==
    \/ Construct \/ SendPacket \/ ReceivePacket \/ SendAndReceivePacket
    \/ EnterDebugMode \/ TestConnection

SpecSerial == InitSerial /\ [][NextSerial]_vars

(***************************************************************************)
(* The loops of the command line that a keyboard interrupt may stop: the   *)
(* streaming dump (dump_memory_to_ascii) and the instruction trace.  A     *)
(* KeyboardInterrupt is raised wherever the program is when the signal     *)
(* arrives, so the loops are followed one transport event at a time:       *)
(* proc.plan is what the loop does when nothing interrupts it, each event  *)
(* with whether it lies inside the loop's try block; proc.at counts the    *)
(* events made.  Only the transport and the target are followed here.      *)
(***************************************************************************)
BeginOn(t) == [Begin EXCEPT !.tgt = t]

\* The events l, outside or inside a try block that catches KeyboardInterrupt.
Events(l, try) == [i \in 1..Len(l) |-> [ev |-> l[i], try |-> try]]

RECURSIVE DumpPlan(_, _)
\* for i, word in enumerate(bdm.dump_words(...)): try: <format word> except KeyboardInterrupt:
\* break.  io is the resumption of generator g that has just run.
DumpPlan(g, io) ==
    IF io.err # ERR_NONE THEN Events(io.log, FALSE)
    ELSE Events(io.log, FALSE) \o Events(<<<<"body">>>>, TRUE)
         \o DumpPlan(Resumed(g, io), dump_words(BeginOn(io.tgt), Resumed(g, io)))

RECURSIVE ReadSome(_, _, _, _)
\* [bdm.read_data_register(i) for i in range(n)], or the address registers
ReadSome(io, address, i, n) ==
    IF io.err # ERR_NONE \/ i = n THEN io
    ELSE ReadSome(Keep(IF address THEN read_address_register(io, i)
                                  ELSE read_data_register(io, i)),
                  address, i + 1, n)

\* (mbar & 0xFFFFFFFE) + offset
PortAddress(mbar, offset) ==
    Long(Hi(mbar) + ((Lo(mbar) - (Lo(mbar) % 2) + offset) \div 65536),
         (Lo(mbar) - (Lo(mbar) % 2) + offset) % 65536)

\* The two read_word calls of the trace; mbar is the eleventh value read.
ReadPorts(io) ==
    IF io.err # ERR_NONE THEN io
    ELSE Keep(read_word(Keep(read_word(io, PortAddress(io.vals[11], PADDR_OFFSET))),
                        PortAddress(io.vals[11], PADAT_OFFSET)))

\* if pc == 0x0 and args.stop_on_zero: break (ret = <<>> then); else bdm.step()
StepUnlessZero(io, stop_on_zero) ==
    IF io.err # ERR_NONE THEN io
    ELSE IF io.vals[1] = Long(0, 0) /\ stop_on_zero THEN [io EXCEPT !.ret = <<>>]
    ELSE step(io)

\* The body of the trace loop; the values read are collected in io.vals.
TraceBody(io, stop_on_zero) ==
    StepUnlessZero(
        ReadPorts(
            Keep(read_control_register(
                ReadSome(
                    ReadSome(
                        Keep(read_address_register(
                            Keep(read_control_register([io EXCEPT !.vals = <<>>], CR_PC)), 7)),
                        FALSE, 0, 4),
                    TRUE, 0, 4),
                CR_MBAR))),
        stop_on_zero)

RECURSIVE TraceLoop(_, _, _)
\* for _ in range(0, args.num_instructions): <body>
TraceLoop(io, n, stop_on_zero) ==
    IF io.err # ERR_NONE \/ n = 0 \/ (io.log # <<>> /\ io.ret = <<>>) THEN io
    ELSE TraceLoop(TraceBody(io, stop_on_zero), n - 1, stop_on_zero)

StartingAddresses == {Long(0, 1024), Long(0, 0)}

\* The dump command: dump_memory_to_ascii starts to iterate over dump_words(base, count).
StartDump ==
    \E base \in DumpBases, count \in DumpCounts :
        /\ proc.state = "none"
        /\ proc' = [state |-> "running", at |-> 0,
                    plan |-> DumpPlan(NewGenerator(base, count),
                                      dump_words(Begin, NewGenerator(base, count)))]
        /\ op' = [name |-> "dump", args |-> <<base, count>>]
        /\ UNCHANGED <<current_step_mode, in_unlock_bypass_mode, tgt, log, outcome, csr_written,
                       pre, nOps, gen, iface>>

\* The trace command: the program counter is written, then the loop starts.
StartTrace ==
    \E start \in StartingAddresses, n \in 1..MaxInstructions, stop_on_zero \in BOOLEAN :
        /\ proc.state = "none"
        /\ proc' = [state |-> "running", at |-> 0,
                    plan |-> Events(TraceLoop([write_control_register(Begin, CR_PC, start)
                                                  EXCEPT !.log = <<>>],
                                              n, stop_on_zero).log, TRUE)]
        /\ op' = [name |-> "trace", args |-> <<start, n, stop_on_zero>>]
        /\ tgt' = write_control_register(Begin, CR_PC, start).tgt
        /\ iface' = [iface EXCEPT !.trace = @ \o write_control_register(Begin, CR_PC, start).log]
        /\ UNCHANGED <<current_step_mode, in_unlock_bypass_mode, log, outcome, csr_written,
                       pre, nOps, gen>>

\* The loop makes its next transport event (or runs the body of the dump loop).
LoopStep ==
    /\ proc.state = "running"
    /\ proc' = [proc EXCEPT !.at = @ + 1,
                            !.state = IF proc.at + 1 = Len(proc.plan) THEN "done" ELSE "running"]
    /\ tgt' = IF proc.plan[proc.at + 1].ev[1] = "write"
              THEN BridgeHandle(tgt, proc.plan[proc.at + 1].ev[2]).tgt
              ELSE tgt
    /\ iface' = IF proc.plan[proc.at + 1].ev[1] = "body" THEN iface
                ELSE [iface EXCEPT !.trace = Append(@, proc.plan[proc.at + 1].ev)]
    /\ UNCHANGED <<current_step_mode, in_unlock_bypass_mode, op, log, outcome, csr_written,
                   pre, nOps, gen>>

\* The signal arrives before the next event: KeyboardInterrupt is caught inside a try block
\* (the loop breaks) and propagates out of the command anywhere else.
Interrupt ==
    /\ proc.state = "running"
    /\ proc' = [proc EXCEPT !.state = IF proc.plan[proc.at + 1].try THEN "stopped" ELSE "crashed"]
    /\ UNCHANGED <<current_step_mode, in_unlock_bypass_mode, tgt, op, log, outcome, csr_written,
                   pre, nOps, gen, iface>>

NextCancel == StartDump \/ StartTrace \/ LoopStep \/ Interrupt

SpecCancel == Init /\ [][NextCancel]_vars

(***************************************************************************)
(* The load_flash command: erase the chip unless told not to, test that    *)
(* its first 8 words read 0xFFFF, unlock, write the file two bytes at a    *)
(* time, and lock again in a finally block.                                *)
(***************************************************************************)
ERR_MAX_BYTES == "ValueError: the number of bytes to load must be divisible by two"
ERR_NOT_ERASED == "RuntimeError: Flash chip was not erased"
ERR_NO_METHOD == "AttributeError: 'BDMCommandInterface' object has no attribute 'send_flash_unlock_bypass'"
ERR_INDEX == "IndexError: index out of range"
DEFAULT_MAX_BYTES == 268435456
ERASE_TEST_BYTES == 16

RECURSIVE ReadFirstWords(_, _)
\* words = [(i, bdm.read_word(i)) for i in range(0, 16, 2)]
ReadFirstWords(io, i) ==
    IF io.err # ERR_NONE \/ i >= ERASE_TEST_BYTES THEN io
    ELSE ReadFirstWords(Keep(read_word(io, Long(0, i))), i + 2)

\* if not all([word == 0xFFFF for _, word in words]): raise RuntimeError
TestErased(io) ==
    IF io.err # ERR_NONE THEN io
    ELSE IF \E k \in 1..Len(io.vals) : io.vals[k] # 65535 THEN Raise(io, ERR_NOT_ERASED)
    ELSE io

\* if not args.skip_erase: ...
EraseFlash(io, skip_erase) ==
    IF skip_erase THEN io ELSE TestErased(ReadFirstWords(send_flash_chip_erase(io), 0))

\* bdm.send_flash_unlock_bypass(): BDMCommandInterface has no method of that name
send_flash_unlock_bypass(io) == Raise(io, ERR_NO_METHOD)

RECURSIVE LoadWords(_, _, _)
\* for i in range(0, len(data), 2): bdm.send_unlock_bypassed_flash_write(i, data[i] << 8 | data[i + 1])
LoadWords(io, data, i) ==
    IF io.err # ERR_NONE \/ i >= Len(data) THEN io
    ELSE IF i + 2 > Len(data) THEN Raise(io, ERR_INDEX)
    ELSE LoadWords(send_unlock_bypassed_flash_write(io, Long(0, i),
                                                    data[i + 1] * 256 + data[i + 2]),
                   data, i + 2)

\* finally: bdm.exit_flash_unlock_bypass(), run whether or not the try block raised
FinallyExit(io) ==
    IF io.err = ERR_NONE THEN exit_flash_unlock_bypass(io)
    ELSE [exit_flash_unlock_bypass([io EXCEPT !.err = ERR_NONE])
             EXCEPT !.err = IF @ = ERR_NONE THEN io.err ELSE @]

\* The unlock, then the try block and its finally; the unlock is outside the try.
LoadData(io, data) ==
    IF send_flash_unlock_bypass(io).err # ERR_NONE THEN send_flash_unlock_bypass(io)
    ELSE FinallyExit(LoadWords(send_flash_unlock_bypass(io), data, 0))

\* load(args, bdm), with data the bytes of args.input_file
load(io, data, skip_erase, max_bytes) ==
    IF max_bytes < Len(data) /\ max_bytes % 2 = 1 THEN Raise(io, ERR_MAX_BYTES)
    ELSE ReturnNone(LoadData(EraseFlash(io, skip_erase),
                             IF max_bytes < Len(data) THEN SubSeq(data, 1, max_bytes)
                                                      ELSE data))

\* Files of up to MaxLoadBytes bytes, and values of --max-bytes.
LoadBytes == {18, 255}
LoadFiles == UNION {[1..n -> LoadBytes] : n \in 0..MaxLoadBytes}
MaxBytesValues == {1, 2, DEFAULT_MAX_BYTES}

LoadFlash ==
    \E data \in LoadFiles, skip_erase \in BOOLEAN, max_bytes \in MaxBytesValues :
        /\ nOps < MaxLoads
        /\ nOps' = nOps + 1
        /\ Ran("load_flash", <<data, skip_erase, max_bytes>>,
               load(Begin, data, skip_erase, max_bytes))
        /\ pre' = [current_step_mode |-> current_step_mode,
                   in_unlock_bypass_mode |-> in_unlock_bypass_mode]
        /\ UNCHANGED session

NextLoad == LoadFlash

SpecLoad == Init /\ [][NextLoad]_vars

(***************************************************************************)
(* Properties.                                                             *)
(***************************************************************************)
Completed == outcome.err = ERR_NONE

\* FlashState of the engine: UnlockBypassActive exactly when in_unlock_bypass_mode is True.
FlashStateOf(mode) == IF mode = "True" THEN "UnlockBypassActive" ELSE "Locked"

\* The command words of a transport log: the words written with 'S' or 's'.
IsWordFrame(ev) == ev[1] = "write" /\ ev[2][1] \in {Ch_S, Ch_s}
FrameWord(ev) == ev[2][2] * 256 + ev[2][3]

\* The number of write-CSR command words in a transport log.
NumCsrWrites(l) ==
    Cardinality({i \in 1..Len(l) : IsWordFrame(l[i]) /\ FrameWord(l[i]) = OP_WRITE_CSR})

\* C1: for N in 0..7 and every 32-bit V, write_address_register(N, V) directly followed by
\* read_address_register(N) returns V, and the same for write_data_register and
\* read_data_register.
C1_WriteThenReadReturnsValue ==
    [][(/\ \/ op.name = "write_address_register" /\ op'.name = "read_address_register"
           \/ op.name = "write_data_register" /\ op'.name = "read_data_register"
        /\ op.args[1] \in 0..7
        /\ op'.args[1] = op.args[1]
        /\ outcome.err = ERR_NONE)
       => (outcome'.err = ERR_NONE /\ outcome'.ret = <<op.args[2]>>)]_vars

\* C2: Response(1, 0x0001) raises the target error, Response(1, 0xFFFF) raises the
\* illegal-command error, every other (status, data) raises nothing and keeps the data.
C2_ResponseSentinels ==
    op.name = "Response" =>
        LET st == op.args[1]
            d == op.args[2]
        IN IF st = 1 /\ d = 1 THEN outcome.err = ERR_TARGET
           ELSE IF st = 1 /\ d = 65535 THEN outcome.err = ERR_ILLEGAL
           ELSE outcome.err = ERR_NONE /\ outcome.ret = <<st, d>>

C2_Witness ==
    /\ op.name = "Response"
    /\ op.args = <<1, 65535>>
    /\ outcome.err = ERR_ILLEGAL

\* C3: a 3-byte frame decodes to status 1 exactly when byte 0 is 'N' and to
\* data = byte1 + 256 * byte2; the frame 'N',0x01,0x00 raises the target error and
\* 'N',0xFF,0xFF the illegal-command error.
C3_FrameDecoding ==
    op.name = "_receive_packet" =>
        LET b == op.args
            status == IF b[1] = Ch_N THEN 1 ELSE 0
            data == b[2] + 256 * b[3]
        IN IF status = 1 /\ data = 1 THEN outcome.err = ERR_TARGET
           ELSE IF status = 1 /\ data = 65535 THEN outcome.err = ERR_ILLEGAL
           ELSE outcome.err = ERR_NONE /\ outcome.ret = <<status, data>>

\* C4: a register index outside 0..7 given to one of the four register operations, and a
\* control-register encoding outside 0..4095 given to read_control_register or
\* write_control_register, fails with the validation error and writes no byte.
C4_OutOfRangeRejected ==
    (\/ /\ op.name \in {"read_address_register", "read_data_register",
                        "write_address_register", "write_data_register"}
        /\ op.args[1] \notin 0..7
     \/ /\ op.name \in {"read_control_register", "write_control_register"}
        /\ op.args[1] \notin 0..4095)
    => (outcome.err = ERR_VALIDATION /\ log = <<>>)

\* C5: write_byte with data outside 0..255 and write_word with data outside 0..65535 fail
\* with the validation error and write no byte, whatever the address.
C5_DataRangeCheckedFirst ==
    (\/ op.name = "write_byte" /\ op.args[2] \notin 0..255
     \/ op.name = "write_word" /\ op.args[2] \notin 0..65535)
    => (outcome.err = ERR_VALIDATION /\ log = <<>>)

C5_Witness ==
    /\ op.name = "write_word"
    /\ op.args = <<Long(-1, 65535), 65536>>
    /\ outcome.err = ERR_VALIDATION
    /\ tgt.cmd # <<>>

\* C6: whenever the flash state is Locked (also on a fresh engine),
\* send_unlock_bypassed_flash_write fails with the protocol-state error and writes no byte.
C6_LockedWriteRejected ==
    (op.name = "send_unlock_bypassed_flash_write"
        /\ FlashStateOf(pre.in_unlock_bypass_mode) = "Locked")
    => (outcome.err = ERR_STATE /\ log = <<>>)

\* C7: the flash state changes only by a completed enter_flash_unlock_bypass (to
\* UnlockBypassActive) and a completed exit_flash_unlock_bypass (to Locked); every other
\* operation leaves it unchanged, and chip erase is accepted in either state.
C7_FlashStateTransitions ==
    /\ (op.name = "enter_flash_unlock_bypass" /\ Completed)
          => FlashStateOf(in_unlock_bypass_mode) = "UnlockBypassActive"
    /\ (op.name = "exit_flash_unlock_bypass" /\ Completed)
          => FlashStateOf(in_unlock_bypass_mode) = "Locked"
    /\ ~(op.name \in {"enter_flash_unlock_bypass", "exit_flash_unlock_bypass"} /\ Completed)
          => in_unlock_bypass_mode = pre.in_unlock_bypass_mode
    /\ op.name = "send_flash_chip_erase"
          => outcome.err \notin {ERR_STATE, ERR_ATTRIBUTE} /\ log # <<>>

C7_Witness ==
    /\ op.name = "exit_flash_unlock_bypass"
    /\ Completed
    /\ pre.in_unlock_bypass_mode = "True"
    /\ in_unlock_bypass_mode = "False"

\* C8 as claimed: of two calls set_single_step_mode(b) in a row, the first issues exactly
\* one write-CSR command and the second none.
C8_Original ==
    [][(/\ op.name = "set_single_step_mode" /\ op'.name = "set_single_step_mode"
        /\ op'.args = op.args
        /\ outcome.err = ERR_NONE /\ outcome'.err = ERR_NONE)
       => (NumCsrWrites(log) = 1 /\ NumCsrWrites(log') = 0)]_vars

\* C8 amended: of two calls set_single_step_mode(b) in a row, the first issues exactly one
\* write-CSR command when the cached step mode differed from b and none when it already
\* was b, and the second issues none.
C8_SecondCallWritesNothing ==
    [][(/\ op.name = "set_single_step_mode" /\ op'.name = "set_single_step_mode"
        /\ op'.args = op.args
        /\ outcome.err = ERR_NONE /\ outcome'.err = ERR_NONE)
       => (/\ NumCsrWrites(log) = (IF pre.current_step_mode = op.args[1] THEN 0 ELSE 1)
           /\ NumCsrWrites(log') = 0
           /\ log' = <<>>)]_vars

C8_Witness ==
    /\ op.name = "set_single_step_mode"
    /\ op.args = <<TRUE>>
    /\ Completed
    /\ pre.current_step_mode = TRUE
    /\ log = <<>>

\* C9: when go() sends the Resume opcode the target's CSR bit 4 is 0 (the target runs), and
\* when step() sends it the bit is 1 (the target executes one instruction).
C9_ResumeMatchesCall ==
    /\ (op.name = "go" /\ Completed) => tgt.resume = "run"
    /\ (op.name = "step" /\ Completed) => tgt.resume = "step"

\* C10: current_step_mode equals bit 4 of the value carried by the last write-CSR command
\* issued, or false when none was issued.
C10_CacheMatchesLastCsrWrite ==
    current_step_mode = (IF csr_written = <<>> THEN FALSE ELSE Bit(csr_written[2], 4) = 1)

\* The frames written in a transport log, in order.
IsWriteEvent(ev) == ev[1] = "write"
FramesWritten(l) ==
    LET written == SelectSeq(l, IsWriteEvent) IN
    [i \in 1..Len(written) |-> written[i][2]]

\* The words base, base + 2, ... of a dump of count words all lie in the target's RAM.
DumpInRam(g) == \A i \in 0..(g.count - 1) : AddrPlus(g.base, 2 * i) \in RamAddrs

\* C11: for count >= 1, fully consuming dump_words(base, count) against a target whose memory
\* holds w0..w(count-1) at base, base+2, ... yields exactly these count words in address order,
\* by sending one Read-Word command (0x1940, address high, address low) unanswered, then
\* count-1 dump commands 0x1D40 each answered with the previous word, then one final receive.
C11_DumpYieldsWordsInOrder ==
    (gen.state = "finished" /\ gen.count >= 1 /\ DumpInRam(gen)) =>
        /\ gen.yielded = [i \in 1..gen.count |-> tgt.mem[AddrPlus(gen.base, 2 * (i - 1))]]
        /\ FramesWritten(gen.log) =
               <<<<Ch_s>> \o PackBE(OP_READ_WORD), <<Ch_s>> \o PackBE(Hi(gen.base)),
                 <<Ch_s>> \o PackBE(Lo(gen.base))>>
               \o [i \in 1..(gen.count - 1) |-> <<Ch_S>> \o PackBE(OP_DUMP_WORD)]
               \o <<<<Ch_r>>>>
        /\ Len(gen.log) = 3 + 2 * gen.count

C11_Witness ==
    /\ gen.state = "finished" /\ gen.count >= 3 /\ DumpInRam(gen)
    /\ Len(gen.yielded) = gen.count
    /\ gen.yielded[1] # gen.yielded[2] /\ gen.yielded[2] # gen.yielded[3]

\* The value returned by the register read whose six transport events start after event
\* number at of the log l: the data words of its second and third response.
RegisterRead(l, at) == Long(UnpackLE(SubSeq(l[at + 4][2], 2, 3)), UnpackLE(SubSeq(l[at + 6][2], 2, 3)))

\* The number of register-write command words (0x2088|N or 0x2080|N) in a transport log.
NumRegisterWrites(l) ==
    Cardinality({i \in 1..Len(l) : IsWordFrame(l[i]) /\ RegBase(FrameWord(l[i])) = OP_WRITE_REG})

\* Register i (0..7 address, 8..15 data) was read in the second pass of the consistency check
\* and its value differed from the first pass.
SecondPassDiffers(i) ==
    /\ Len(log) >= 6 * (NumRegisters + i + 1)
    /\ RegisterRead(log, 6 * (NumRegisters + i)) # RegisterRead(log, 6 * i)

\* C12: in consistency_check, if any of the 8 address or 8 data registers returns a value in
\* the second read pass that differs from the first pass, the check fails with the
\* inconsistent-read error and no register-write command has been issued; the error is raised
\* in no other case.
C12_InconsistentReadBeforeWrites ==
    op.name = "consistency_check" =>
        /\ (\E i \in 0..(NumRegisters - 1) : SecondPassDiffers(i)) =>
               (outcome.err = ERR_INCONSISTENT /\ NumRegisterWrites(log) = 0)
        /\ outcome.err = ERR_INCONSISTENT =>
               (\E i \in 0..(NumRegisters - 1) : SecondPassDiffers(i))

C12_Witness ==
    /\ op.name = "consistency_check"
    /\ \E i \in NUM_ADDRESS_REGISTERS..(NumRegisters - 1) : SecondPassDiffers(i)
    /\ outcome.err = ERR_INCONSISTENT

\* The transport events of the two read passes and of the 16 register writes.
EventsBeforeReadBack == 6 * 2 * NumRegisters + 4 * NumRegisters

\* Register i was read back after the writes and its value differed from the value drawn for it.
ReadBackDiffers(i) ==
    /\ Len(log) >= EventsBeforeReadBack + 6 * (i + 1)
    /\ RegisterRead(log, EventsBeforeReadBack + 6 * i) # pre.expected[i + 1]

\* C13: in consistency_check the write-verification error is raised exactly when some
\* register's read-back value differs from the value written to it, and against a halted
\* target that stores every register write and returns stable reads the check completes
\* without raising.
C13_WriteVerification ==
    op.name = "consistency_check" =>
        /\ outcome.err = ERR_WRITE_VERIFY <=>
               (\E i \in 0..(NumRegisters - 1) : ReadBackDiffers(i))
        /\ (pre.tgt.drift = <<>> /\ pre.tgt.cmd = <<>>) => Completed

\* C14: when consistency_check returns without error, every one of the 8 address and 8 data
\* registers of the target holds the value it held before the check started.
C14_RegistersRestored ==
    (op.name = "consistency_check" /\ Completed) => tgt.regs = pre.tgt.regs

\* The command words of the read operation o, and the number of response words it returns.
CommandWords(o) ==
    IF o.name = "noop" THEN <<OP_NOOP>>
    ELSE IF o.name = "read_byte" THEN <<OP_READ_BYTE, Hi(o.args[1]), Lo(o.args[1])>>
    ELSE IF o.name = "read_word" THEN <<OP_READ_WORD, Hi(o.args[1]), Lo(o.args[1])>>
    ELSE IF o.name = "read_longword" THEN <<OP_READ_LONG, Hi(o.args[1]), Lo(o.args[1])>>
    ELSE IF o.name = "read_address_register" THEN <<OP_READ_AREG + o.args[1]>>
    ELSE IF o.name = "read_data_register" THEN <<OP_READ_REG + o.args[1]>>
    ELSE IF o.name = "read_control_register" THEN <<OP_READ_CREG, 0, o.args[1]>>
    ELSE <<OP_READ_CSR>>

ReadOperations ==
    {"noop", "read_byte", "read_word", "read_longword", "read_address_register",
     "read_data_register", "read_control_register", "read_debug_configuration_status_register"}

ResponseWords(o) == IF o.name \in {"noop", "read_byte", "read_word"} THEN 1 ELSE 2

RECURSIVE ShiftAll(_, _)
\* The target after the words were shifted into it one by one.
ShiftAll(t, words) ==
    IF words = <<>> THEN t ELSE ShiftAll(TargetShift(t, Head(words)), Tail(words))

\* What the target answers to the words of operation o shifted into target t: the data of the
\* response pending once the last command word is in, and for a two-word result the data of
\* the response pending after one more transfer, combined as (first << 16) | second.
OwnResponse(t, o) ==
    IF ResponseWords(o) = 1
    THEN TargetReply(ShiftAll(t, CommandWords(o)))[2]
    ELSE Long(TargetReply(ShiftAll(t, CommandWords(o)))[2],
              TargetReply(ShiftAll(t, Append(CommandWords(o), OP_NOOP)))[2])

\* The command of operation o, run by target t, is answered with all its data words (and not
\* with a bus error).
Answered(t, o) == Len(TargetExecute(t, CommandWords(o)).out) = ResponseWords(o)

\* What the command of operation o reads on target t when t is between two commands.
ValueRead(t, o) ==
    IF ResponseWords(o) = 1
    THEN TargetExecute(t, CommandWords(o)).out[1][2]
    ELSE Long(TargetExecute(t, CommandWords(o)).out[1][2],
              TargetExecute(t, CommandWords(o)).out[2][2])

\* The value the read operation o returns when the link delivers v.
Returned(o, v) == IF o.name = "read_byte" THEN v % 256 ELSE v

\* C15: with the target link a queue of depth one, every read operation (noop, read_byte,
\* read_word, read_longword, read_address_register, read_data_register,
\* read_control_register, read CSR) that returns, returns the target's response to its own
\* command words and never the response an earlier operation left in flight, a two-word
\* result being (first << 16) | second in arrival order; on a target that was between two
\* commands this is the value the command reads.
C15_ReadReturnsOwnResponse ==
    (op.name \in ReadOperations /\ Completed) =>
        /\ outcome.ret = <<Returned(op, OwnResponse(pre.tgt, op))>>
        /\ (pre.tgt.cmd = <<>> /\ Answered(pre.tgt, op)) =>
               outcome.ret = <<Returned(op, ValueRead(pre.tgt, op))>>

C15_Witness ==
    /\ op.name = "read_address_register" /\ Completed
    /\ pre.tgt.cmd = <<>> /\ pre.tgt.out # <<>>
    /\ outcome.ret = <<pre.tgt.regs[8 + op.args[1]]>>
    /\ Hi(outcome.ret[1]) # Lo(outcome.ret[1])

\* Transport events: the write of a frame that is answered ('r', 'S'), a read of 3 bytes.
IsAnsweredFrame(ev) == ev[1] = "write" /\ ev[2][1] \in {Ch_r, Ch_S}
IsPacketRead(ev) == ev[1] = "read" /\ Len(ev[2]) = 3

\* C16: send_packet(w) writes exactly 's' plus w as 2 big-endian bytes and reads nothing;
\* receive_packet writes exactly 'r' and then reads exactly 3 bytes; send_and_receive_packet(w)
\* writes exactly 'S' plus w as 2 big-endian bytes and then reads exactly 3 bytes; so on the
\* port every 'r' or 'S' frame is directly followed by one 3-byte read, and every 3-byte read
\* directly follows such a frame.
C16_TransportFraming ==
    /\ (op.name = "send_packet" /\ IsWord(op.args[1])) =>
           log = <<<<"write", <<Ch_s, op.args[1] \div 256, op.args[1] % 256>>>>>>
    /\ op.name = "receive_packet" =>
           (Len(log) = 2 /\ log[1] = <<"write", <<Ch_r>>>> /\ IsPacketRead(log[2]))
    /\ (op.name = "send_and_receive_packet" /\ IsWord(op.args[1])) =>
           /\ Len(log) = 2
           /\ log[1] = <<"write", <<Ch_S, op.args[1] \div 256, op.args[1] % 256>>>>
           /\ IsPacketRead(log[2])
    /\ \A i \in 1..Len(iface.trace) :
           /\ IsAnsweredFrame(iface.trace[i]) =>
                  (i < Len(iface.trace) /\ IsPacketRead(iface.trace[i + 1]))
           /\ IsPacketRead(iface.trace[i]) => (i > 1 /\ IsAnsweredFrame(iface.trace[i - 1]))

C16_Witness ==
    /\ op.name = "send_and_receive_packet" /\ op.args[1] = 6464
    /\ \E i \in 1..Len(iface.trace) : iface.trace[i] = <<"write", <<Ch_s, 16, 0>>>>
    /\ \E i \in 1..Len(iface.trace) : iface.trace[i] = <<"write", <<Ch_r>>>>

\* C17: no command byte ('s', 'r', 'S', 'R', 'B' or 'P' frame) is written to the transport
\* before the two identification lines have both been read and matched; if either line does
\* not match, setup fails and no command is ever written.
C17_HandshakeBeforeCommands ==
    /\ (\E i \in 1..Len(iface.trace) : iface.trace[i][1] = "write") =>
           /\ iface.trace[1][1] = "readline" /\ Contains(iface.trace[1][2], BANNER)
           /\ iface.trace[2][1] = "readline" /\ Contains(iface.trace[2][2], READY)
    /\ (\E i \in 1..Len(iface.trace) :
            /\ iface.trace[i][1] = "readline"
            /\ ~Contains(iface.trace[i][2], IF i = 1 THEN BANNER ELSE READY)) =>
           /\ iface.state = "failed"
           /\ outcome.err = ERR_HANDSHAKE
           /\ \A i \in 1..Len(iface.trace) : iface.trace[i][1] # "write"

C17_Witness ==
    /\ iface.state = "ready"
    /\ Len(iface.trace) > 2
    /\ iface.trace[3] = <<"write", <<Ch_R>>>>

\* The last frame written to the port is one the bridge answers, and its answer was not read.
ResponseUnread ==
    iface.trace # <<>> /\ IsAnsweredFrame(iface.trace[Len(iface.trace)])

\* C18: when a keyboard interrupt arrives at any point during the streaming memory dump or
\* the instruction-trace loop, the loop stops and the protocol is left in a clean state: no
\* command has been partly sent and no framed command has been written whose 3-byte response
\* was left unread.
C18_CancellationLeavesCleanState ==
    proc.state \in {"stopped", "crashed"} => (tgt.cmd = <<>> /\ ~ResponseUnread)

\* C19: for every 32-bit value V, write_debug_configuration_status_register(V) sends the
\* three words 0x2C80, V >> 16, V & 0xFFFF, so that against a target that stores CSR writes a
\* following read_debug_configuration_status_register returns a CSR whose data equals V.
C19_WriteCsrSendsValue ==
    [][/\ (op'.name = "write_debug_configuration_status_register" /\ outcome'.err = ERR_NONE) =>
            FramesWritten(log') =
                <<<<Ch_S>> \o PackBE(OP_WRITE_CSR), <<Ch_S>> \o PackBE(Hi(op'.args[1])),
                  <<Ch_S>> \o PackBE(Lo(op'.args[1]))>>
       /\ (/\ op.name = "write_debug_configuration_status_register" /\ Completed
           /\ tgt.cmd = <<>>
           /\ op'.name = "read_debug_configuration_status_register"
           /\ outcome'.err = ERR_NONE) =>
            outcome'.ret = <<op.args[1]>>]_vars

\* The CSR value the last call read from the target: the data words of its second and third
\* response.
CsrRead == RegisterRead(log, 0)

\* The low word lo of a CSR with bit 4 set to enabled and every other bit kept.
WithStepBit(lo, enabled) == lo - 16 * Bit(lo, 4) + (IF enabled THEN 16 ELSE 0)

\* C20: for every 32-bit CSR value C held by the target, a set_single_step_mode(enabled) call
\* that performs a write leaves every CSR bit other than bit 4 equal to its value in C and
\* sets bit 4 to enabled.
C20_StepModeKeepsOtherBits ==
    (op.name = "set_single_step_mode" /\ Completed /\ NumCsrWrites(log) = 1) =>
        tgt.csr = Long(Hi(CsrRead), WithStepBit(Lo(CsrRead), op.args[1]))

\* The 3-byte frames that carry an error sentinel: status marker 'N' with data 0x0001 or 0xFFFF.
ErrorSentinelFrames == {<<Ch_N, 1, 0>>, <<Ch_N, 255, 255>>}

\* C21: when a response decoded inside an operation is an error sentinel (status 1 with data
\* 0x0001 or 0xFFFF), the operation raises at that point: the read of that frame is the last
\* transport event of the call, so no further command word is written and nothing is re-sent.
C21_SentinelAbortsOperation ==
    \A i \in 1..Len(log) :
        (log[i][1] = "read" /\ log[i][2] \in ErrorSentinelFrames) =>
            (i = Len(log) /\ outcome.err \in {ERR_TARGET, ERR_ILLEGAL})

\* The number of transport events of a consistency check that ends with the comparison of
\* register i, when the pass it is read in starts after event number start: the comparison of
\* the address registers follows the eighth read of the pass, that of the data registers the
\* sixteenth.
EndOfPass(start, i) ==
    start + 6 * (IF i < NUM_ADDRESS_REGISTERS THEN NUM_ADDRESS_REGISTERS ELSE NumRegisters)

\* C22: once consistency_check has detected a mismatch it issues no further command: the
\* transport log ends with the last read of the pass whose comparison failed, a mismatch in the
\* second read pass leaves no register write on the wire, and a mismatch in the read-back
\* leaves only the 16 writes of the random values, none that would restore the originals.
C22_NoCommandAfterMismatch ==
    op.name = "consistency_check" =>
        \A i \in 0..(NumRegisters - 1) :
            /\ SecondPassDiffers(i) =>
                   (Len(log) = EndOfPass(6 * NumRegisters, i) /\ NumRegisterWrites(log) = 0)
            /\ ReadBackDiffers(i) =>
                   (Len(log) = EndOfPass(EventsBeforeReadBack, i)
                    /\ NumRegisterWrites(log) = NumRegisters)

C22_Witness ==
    /\ op.name = "consistency_check"
    /\ outcome.err = ERR_WRITE_VERIFY
    /\ \E i \in 0..(NumRegisters - 1) : ReadBackDiffers(i)
    /\ NumRegisterWrites(log) = NumRegisters

\* The frame that carries the 16-bit word w together with a request for the response, and
\* the four frames of one word write: the write-word command, the address, the data.
WordFrame(w) == <<Ch_S, w \div 256, w % 256>>
WordWrite(address, data) ==
    <<WordFrame(OP_WRITE_WORD), WordFrame(Hi(address)), WordFrame(Lo(address)), WordFrame(data)>>

\* C23: in state UnlockBypassActive a successful send_unlock_bypassed_flash_write(address,
\* data) puts exactly two word writes on the wire, 0xA0 to address 0x00 and then data to
\* address; enter_flash_unlock_bypass exactly the three word writes (0x555<<1: 0xAA),
\* (0x2AA<<1: 0x55), (0x555<<1: 0x20), and exit_flash_unlock_bypass exactly (0x00: 0x90),
\* (0x00: 0x00), each in that order and with no other frame written.
C23_FlashWriteSequences ==
    /\ (op.name = "send_unlock_bypassed_flash_write" /\ Completed
            /\ FlashStateOf(pre.in_unlock_bypass_mode) = "UnlockBypassActive") =>
           FramesWritten(log) = WordWrite(FLASH_000, 160) \o WordWrite(op.args[1], op.args[2])
    /\ op.name = "enter_flash_unlock_bypass" =>
           FramesWritten(log) = WordWrite(FLASH_555, 170) \o WordWrite(FLASH_2AA, 85)
                                    \o WordWrite(FLASH_555, 32)
    /\ op.name = "exit_flash_unlock_bypass" =>
           FramesWritten(log) = WordWrite(FLASH_000, 144) \o WordWrite(FLASH_000, 0)

C23_Witness ==
    /\ op.name = "send_unlock_bypassed_flash_write"
    /\ Completed
    /\ pre.in_unlock_bypass_mode = "True"
    /\ Len(FramesWritten(log)) = 8

\* The frames of the six erase-key word writes, in order.
EraseKeyFrames ==
    WordWrite(FLASH_555, 170) \o WordWrite(FLASH_2AA, 85) \o WordWrite(FLASH_555, 128)
        \o WordWrite(FLASH_555, 170) \o WordWrite(FLASH_2AA, 85) \o WordWrite(FLASH_555, 16)

\* C24: send_flash_chip_erase writes the six erase-key word writes in order, then waits, and
\* only after the wait writes the single confirming word write (0x555<<1: 0xF0); the wait is
\* the only one, and no other frame is written before, between or after.
C24_EraseWaitsBeforeConfirming ==
    op.name = "send_flash_chip_erase" =>
        \E k \in 1..Len(log) :
            /\ log[k] = <<"sleep", <<ERASE_WAIT_SECONDS>>>>
            /\ \A j \in 1..Len(log) : log[j][1] = "sleep" => j = k
            /\ FramesWritten(SubSeq(log, 1, k - 1)) = EraseKeyFrames
            /\ FramesWritten(SubSeq(log, k + 1, Len(log))) = WordWrite(FLASH_555, 240)

C24_Witness ==
    /\ op.name = "send_flash_chip_erase"
    /\ Completed
    /\ Len(FramesWritten(log)) = 28
    /\ \E k \in 1..Len(log) : log[k][1] = "sleep"

\* The frames written by load_flash from the unlock on: everything when the erase is skipped,
\* and otherwise what follows the 28 frames of the erase and the 32 of its test.
LoadFramesAfterErase ==
    LET frames == FramesWritten(log) IN
    IF op.args[2] THEN frames ELSE SubSeq(frames, 61, Len(frames))

EnterFrames ==
    WordWrite(FLASH_555, 170) \o WordWrite(FLASH_2AA, 85) \o WordWrite(FLASH_555, 32)
ExitFrames == WordWrite(FLASH_000, 144) \o WordWrite(FLASH_000, 0)

\* C25: when load_flash has got past its erase phase, the frames it writes from then on start
\* with the three word writes that enter unlock-bypass mode, so that every bypassed write
\* comes after them, and end with the two word writes of exit_flash_unlock_bypass, whether
\* or not a write failed; the flash state is Locked when load ends.
C25_LoadEntersAndExitsBypass ==
    (op.name = "load_flash" /\ outcome.err \notin {ERR_MAX_BYTES, ERR_NOT_ERASED}) =>
        /\ Len(LoadFramesAfterErase) >= Len(EnterFrames) + Len(ExitFrames)
        /\ SubSeq(LoadFramesAfterErase, 1, Len(EnterFrames)) = EnterFrames
        /\ SubSeq(LoadFramesAfterErase, Len(LoadFramesAfterErase) - Len(ExitFrames) + 1,
                  Len(LoadFramesAfterErase)) = ExitFrames
        /\ FlashStateOf(in_unlock_bypass_mode) = "Locked"

\* C26: every operation is all-or-nothing on the wire for every integer argument: a call that
\* raises because of an argument (a range check of the engine, or a word that does not fit
\* the 16 bits of a packet) has written no frame at all, so no transaction is left with only
\* its first words sent.
C26_AllOrNothingOnTheWire ==
    outcome.err \in {ERR_VALIDATION, ERR_STRUCT} => FramesWritten(log) = <<>>

\* The memory and control-register write operations built on _send.
SendWrites == {"write_byte", "write_word", "write_longword", "write_control_register"}

\* C27: a write operation built on _send does not read the target's response to its last
\* command word: the call writes no 'r' request and the response stays in flight; when that
\* response is the bus-error sentinel, the next operation that receives a packet raises the
\* target's error.
C27_WriteErrorRaisedByNextOperation ==
    [][/\ (op'.name \in SendWrites /\ outcome'.err = ERR_NONE) =>
            /\ \A i \in 1..Len(log') : log'[i][1] = "write" => log'[i][2][1] = Ch_S
            /\ tgt'.out # <<>>
       /\ (op.name \in SendWrites /\ outcome.err = ERR_NONE /\ TargetReply(tgt) = RSP_ERROR
                /\ \E i \in 1..Len(log') : IsPacketRead(log'[i])) =>
            outcome'.err = ERR_TARGET]_vars

\* C28: after every sequence of calls of send_packet, receive_packet, send_and_receive_packet,
\* enter_debug_mode and test_connection, the commands_sent list of a mock interface given the
\* same calls holds, in order, exactly the frames the real interface wrote to the port, and
\* no call of the mock raised a response error.
C28_MockRecordsRealFrames ==
    /\ iface.mock.commands_sent = FramesWritten(iface.trace)
    /\ iface.mock.err \notin {ERR_TARGET, ERR_ILLEGAL}

C28_Witness ==
    /\ Len(iface.mock.commands_sent) >= 3
    /\ iface.mock.commands_sent[1] \in {<<Ch_R>>, <<Ch_B>>}
    /\ iface.mock.commands_sent[2] = <<Ch_P>>
    /\ iface.mock.commands_sent[3][1] \in {Ch_s, Ch_S, Ch_r}
    /\ iface.mock.commands_sent = FramesWritten(iface.trace)

\* C29: dump_words(base, num_words), fully consumed, has yielded exactly num_words words, none
\* when num_words is 0, and a generator that has been created but not yet asked for its first
\* word has written nothing to the transport.
C29_DumpOfZeroWordsYieldsNothing ==
    /\ gen.state = "created" => gen.log = <<>>
    /\ gen.state = "finished" => Len(gen.yielded) = gen.count
====
